---- MODULE Spec2Model ----
(***************************************************************************)
(* A model of the ENF package (src/enf): the rate conversion and ENF       *)
(* extraction of signal_processing.py, the similarity matchers of match.py *)
(* and the paged range query of gridradar.py.                              *)
(*                                                                         *)
(* A signal is modelled by its length (the number of samples): the sample  *)
(* values never decide a branch of the code modelled here.  Python floats  *)
(* are IEEE-754 doubles; where a float decides an integer result (the      *)
(* sample count of resample, the rate of almost_decimate) the rounding of  *)
(* the double division is modelled exactly, with integers.  Scores of the  *)
(* matchers are kept as exact rationals (see the matcher section).         *)
(***************************************************************************)
EXTENDS Integers, Sequences, FiniteSets, TLC

VARIABLES
    pc,             \* "call": the inputs are fixed, nothing ran; "loop": inside
                    \* query_range's while loop; "done": the call returned or raised
    op,             \* the function that ran ("none" before the call)
    args,           \* the inputs of the call
    ret,            \* what the call returned (NoValue when it raised)
    err,            \* the exception the call raised ("none" when it returned)
    account_info,   \* gridradar: the row get_account_info returned
    current_start,  \* gridradar: query_range's cursor
    log             \* the calls made on the way, in order: the stages of
                    \* enf_series; gridradar's requests and sleeps

vars == <<pc, op, args, ret, err, account_info, current_start, log>>

NoValue == [none |-> TRUE]

----------------------------------------------------------------------------
(* Bounds of the model. *)

MaxRate == 22       \* sample rates fs, new_fs range over 1..MaxRate
MaxLen == 30        \* signal lengths range over 1..MaxLen
MaxVal == 2         \* samples of the matched series range over 1..MaxVal
MaxQLen == 3        \* queries have 1..MaxQLen samples
MaxTLen == 5        \* references have 1..MaxTLen samples
EnfMaxRate == 3     \* enf_series: fs ranges over 1..EnfMaxRate
EnfMaxLen == 4      \* enf_series: the signal has 1..EnfMaxLen samples
NBins == 2          \* frequency bins of a spectral grid: 0..NBins-1
MaxSlices == 3      \* time slices of a spectral grid: 1..MaxSlices
TicksPerSecond == 2 \* gridradar: instants are counted in ticks, this many a second
MaxTime == 6        \* gridradar: from_dt and to_dt range over 0..MaxTime ticks
MaxSpan == 3        \* gridradar: the account's maximum period, 0..MaxSpan ticks
MaxInterval == 1    \* gridradar: the account's minimum interval, 1..MaxInterval ticks

----------------------------------------------------------------------------
(* IEEE-754 double arithmetic on the values the code computes.             *)
(*                                                                         *)
(* The double nearest to a/b is x = M * 2^(E-52) with E = floor(log2(a/b)) *)
(* and M = a * 2^(52-E) / b rounded to the nearest integer, ties to even.  *)
(* With d = M*b - a*2^(52-E) (the signed rounding residue, |d| <= b/2),    *)
(* x = (a + d * 2^(E-52)) / b exactly: the record below is that double.    *)

RECURSIVE FloorLog2Q(_, _)
\* floor(log2(a/b)) for integers a, b >= 1
FloorLog2Q(a, b) ==
    IF a >= 2 * b THEN 1 + FloorLog2Q(a, 2 * b)
    ELSE IF a < b THEN FloorLog2Q(2 * a, b) - 1
    ELSE 0

RECURSIVE CeilLog2(_)
\* ceil(log2(k)) for an integer k >= 1
CeilLog2(k) == IF k <= 1 THEN 0 ELSE 1 + CeilLog2((k + 1) \div 2)

RECURSIVE PowMod(_, _)
\* 2^n modulo m
PowMod(n, m) == IF n = 0 THEN 1 % m ELSE (2 * PowMod(n - 1, m)) % m

Pow2(n) == IF n <= 0 THEN 1 ELSE 2 ^ n

\* Python's a / b on two positive ints: the double nearest to the quotient.
float_div(a, b) ==
    LET E == FloorLog2Q(a, b)
        rem == (a * PowMod(52 - E, b)) % b
        odd == ((a * PowMod(52 - E, 2 * b)) % (2 * b)) \div b
        down == 2 * rem < b \/ (2 * rem = b /\ odd = 0)
    IN  [num |-> a, den |-> b, exp |-> E,
         res |-> IF down THEN 0 - rem ELSE b - rem]

\* int(x * c) for a double x = float_div(a, b) and an int c >= 1: the double
\* product, rounded to nearest, then truncated toward zero.  With k = a*c/b
\* an integer, the product rounds up to k exactly when it lies no further
\* below k than half a unit in the last place of the doubles just below k.
int_of_product(x, c) ==
    LET a == x.num
        b == x.den
        k == (a * c) \div b
        s == x.exp + 1 - (CeilLog2(k) - 1)
    IN  IF (a * c) % b # 0 \/ x.res >= 0 THEN k
        ELSE IF c * (0 - x.res) * Pow2(s) <= b * Pow2(0 - s) THEN k
        ELSE k - 1

\* int(n / x) for an int n >= 1 and a double x = float_div(a, b): the double
\* quotient, rounded to nearest, then truncated toward zero.
int_of_quotient(n, x) ==
    LET a == x.num
        b == x.den
        k == (n * b) \div a
        s == (CeilLog2(k) - 1) - 1 - x.exp
    IN  IF (n * b) % a # 0 \/ x.res <= 0 THEN k
        ELSE IF a * Pow2(s) >= k * x.res * Pow2(0 - s) THEN k
        ELSE k - 1

----------------------------------------------------------------------------
(* signal_processing.py: rate conversion.                                  *)
(* Each function is the set of its possible outcomes, a record             *)
(* [err, rate, len]: one outcome, except where the code hands scipy an     *)
(* argument on which scipy's behaviour is not the repository's to decide.  *)

Raised(e) == [err |-> e, rate |-> 0, len |-> 0]
Returned(rate, len) == [err |-> "none", rate |-> rate, len |-> len]

\* _validate_fs: TRUE when it raises the ValueError "New sample rate must be
\* less than the original sample rate".
validate_fs(fs, new_fs) == fs < new_fs

\* scipy.signal.resample(data, num): num samples; with num = 0 the inverse
\* FFT is asked for zero points, which scipy may refuse.
scipy_resample(num) ==
    IF num = 0 THEN {"none", "LibraryError"} ELSE {"none"}

\* scipy.signal.decimate(data, q, ftype='fir'): ceil(len / q) samples; with
\* q = 1 the anti-alias filter is designed with its cutoff at the Nyquist
\* rate, which scipy may refuse.
scipy_decimate(q) ==
    IF q = 1 THEN {"none", "LibraryError"} ELSE {"none"}

decimated_len(len, q) == (len + q - 1) \div q

resample(len, fs, new_fs) ==
    IF validate_fs(fs, new_fs) THEN {Raised("InvalidRate")}
    ELSE LET wave_duration == float_div(len, fs)
             num_samples == int_of_product(wave_duration, new_fs)
         IN  {IF e = "none" THEN Returned(new_fs, num_samples) ELSE Raised(e) :
                  e \in scipy_resample(num_samples)}

RECURSIVE gcd(_, _)
gcd(a, b) == IF b = 0 THEN a ELSE gcd(b, a % b)

decimate_and_interpolate(len, fs, new_fs) ==
    IF validate_fs(fs, new_fs) THEN {Raised("InvalidRate")}
    ELSE LET decimation_factor == fs \div gcd(fs, new_fs)
             interpolation_factor == new_fs \div gcd(fs, new_fs)
             final_length ==
                 decimated_len(len, decimation_factor) * interpolation_factor
         IN  {IF e = "none" THEN Returned(new_fs, final_length) ELSE Raised(e) :
                  e \in scipy_decimate(decimation_factor)}

almost_decimate(len, fs, new_fs) ==
    IF validate_fs(fs, new_fs) THEN {Raised("InvalidRate")}
    ELSE LET decimation_factor == fs \div new_fs
             n == decimated_len(len, decimation_factor)
             wave_duration == float_div(len, fs)
         IN  {IF e = "none"
                  THEN Returned(int_of_quotient(n, wave_duration), n)
                  ELSE Raised(e) :
                  e \in scipy_decimate(decimation_factor)}

----------------------------------------------------------------------------
(* The rate-conversion calls as a state machine: the inputs are drawn in   *)
(* the initial state, one action per function.                             *)

Idle ==
    /\ account_info = NoValue
    /\ current_start = 0
    /\ log = <<>>

InitRate ==
    /\ pc = "call"
    /\ op = "none"
    /\ args \in [len : 1..MaxLen, fs : 1..MaxRate, new_fs : 1..MaxRate]
    /\ ret = NoValue
    /\ err = "none"
    /\ Idle

Finish(name, outcome) ==
    /\ pc' = "done"
    /\ op' = name
    /\ err' = outcome.err
    /\ ret' = IF outcome.err = "none"
                  THEN [rate |-> outcome.rate, len |-> outcome.len]
                  ELSE NoValue
    /\ UNCHANGED <<args, account_info, current_start, log>>

Resample ==
    /\ pc = "call"
    /\ \E o \in resample(args.len, args.fs, args.new_fs) : Finish("resample", o)

DecimateAndInterpolate ==
    /\ pc = "call"
    /\ \E o \in decimate_and_interpolate(args.len, args.fs, args.new_fs) :
           Finish("decimate_and_interpolate", o)

AlmostDecimate ==
    /\ pc = "call"
    /\ \E o \in almost_decimate(args.len, args.fs, args.new_fs) :
           Finish("almost_decimate", o)

NextRate == Resample \/ DecimateAndInterpolate \/ AlmostDecimate

SpecRate == InitRate /\ [][NextRate]_vars

----------------------------------------------------------------------------
(* signal_processing.py: ENF extraction.                                   *)
(*                                                                         *)
(* A spectral grid zxx is kept as the sequence of its columns zxx[:, i],   *)
(* one per time slice; a column maps the bins 0..NBins-1 to complex        *)
(* values <<re, im>>.  The frequency axis is f[idx] = idx, in units of the *)
(* bin width.                                                              *)

kernel_size == 29

Cells == {<<0, 1>>, <<1, 0>>}

Columns == [0..(NBins - 1) -> Cells]

Grids == UNION {[1..n -> Columns] : n \in 1..MaxSlices}

\* numpy orders complex numbers by real part, then by imaginary part
complex_lt(a, b) == a[1] < b[1] \/ (a[1] = b[1] /\ a[2] < b[2])

\* np.argmax(column): the first index that holds the maximum
argmax(column) ==
    CHOOSE idx \in DOMAIN column :
        /\ \A j \in DOMAIN column : ~complex_lt(column[idx], column[j])
        /\ \A j \in DOMAIN column : j < idx => complex_lt(column[j], column[idx])

RECURSIVE select_truthy(_, _)
\* [f[idx] for i in range(n) if (idx := argmax(zxx[:, i]))]: the condition
\* of the comprehension is the index itself, and 0 is falsy
select_truthy(zxx, n) ==
    IF n = 0 THEN <<>>
    ELSE LET idx == argmax(zxx[n])
             rest == select_truthy(zxx, n - 1)
         IN  IF idx # 0 THEN Append(rest, idx) ELSE rest

\* scipy.signal.medfilt(x, kernel_size): the median of the kernel_size
\* values around each sample, the signal padded with zeros
medfilt(x, k) ==
    LET half == k \div 2
        padded(j) == IF j >= 1 /\ j <= Len(x) THEN x[j] ELSE 0
        win(i) == (i - half)..(i + half)
        median(i) ==
            CHOOSE v \in {padded(j) : j \in win(i)} :
                /\ Cardinality({j \in win(i) : padded(j) < v}) <= half
                /\ Cardinality({j \in win(i) : padded(j) <= v}) > half
    IN  [i \in 1..Len(x) |-> median(i)]

\* what medfilt does with no sample at all is scipy's to decide
scipy_medfilt(x) ==
    IF Len(x) = 0 THEN {"none", "LibraryError"} ELSE {"none"}

median_filter(t_len, zxx) ==
    LET peak_freqs == select_truthy(zxx, t_len)
    IN  {[err |-> e,
          out |-> IF e = "none" THEN medfilt(peak_freqs, kernel_size) ELSE <<>>] :
             e \in scipy_medfilt(peak_freqs)}

\* The optional argument new_fs of enf_series: None, or an int.
None == [given |-> FALSE, value |-> 0]
Some(n) == [given |-> TRUE, value |-> n]

\* the guard without its comparison: "if new_fs"
resample_wanted_any(fs, new_fs) ==
    new_fs.given /\ new_fs.value # 0

\* the guard of enf_series: "if new_fs and new_fs < fs"
resample_wanted(fs, new_fs) ==
    new_fs.given /\ new_fs.value # 0 /\ new_fs.value < fs

Call(fn, len, fs) == [fn |-> fn, len |-> len, fs |-> fs]

\* enf_series: the set of its outcomes [err, calls, out].  calls are the
\* stages entered, each with the length of the signal and the rate it was
\* handed.  butter_bandpass_filter rejects cut-offs outside (0, fs/2) and
\* stft rejects a signal shorter than its segment; the cut-offs and the
\* samples are not modelled, so either may raise.  The grid stft returns is
\* any grid.
enf_series(len, fs, new_fs) ==
    LET wanted == resample_wanted(fs, new_fs)
        rs == IF wanted THEN resample(len, fs, new_fs.value)
              ELSE {Returned(fs, len)}
        first == IF wanted THEN <<Call("resample", len, fs)>> ELSE <<>>
        Stop(e, calls) == [err |-> e, calls |-> calls, out |-> <<>>]
        After(r) ==
            LET c1 == Append(first, Call("butter_bandpass_filter", r.len, r.rate))
                c2 == Append(c1, Call("stft", r.len, r.rate))
            IN  {Stop("LibraryError", c1), Stop("LibraryError", c2)}
                \cup UNION {
                    {[err |-> m.err,
                      calls |-> Append(c2, Call("median_filter", Len(zxx), r.rate)),
                      out |-> m.out] : m \in median_filter(Len(zxx), zxx)} :
                    zxx \in Grids}
    IN  UNION {IF r.err # "none" THEN {Stop(r.err, first)} ELSE After(r) :
                   r \in rs}

----------------------------------------------------------------------------
(* ENF extraction as a state machine.  SpecEnf calls enf_series on a       *)
(* signal and its rates; SpecMedian calls median_filter on a grid.         *)

InitEnf ==
    /\ pc = "call"
    /\ op = "none"
    /\ args \in [len : 1..EnfMaxLen, fs : 1..EnfMaxRate,
                 new_fs : {None} \cup {Some(n) : n \in 0..(EnfMaxRate + 1)}]
    /\ ret = NoValue
    /\ err = "none"
    /\ Idle

EnfSeries ==
    /\ pc = "call"
    /\ \E o \in enf_series(args.len, args.fs, args.new_fs) :
           /\ pc' = "done"
           /\ op' = "enf_series"
           /\ err' = o.err
           /\ ret' = IF o.err = "none" THEN o.out ELSE NoValue
           /\ log' = o.calls
    /\ UNCHANGED <<args, account_info, current_start>>

NextEnf == EnfSeries

SpecEnf == InitEnf /\ [][NextEnf]_vars

InitMedian ==
    /\ pc = "call"
    /\ op = "none"
    /\ args \in [zxx : Grids]
    /\ ret = NoValue
    /\ err = "none"
    /\ Idle

MedianFilter ==
    /\ pc = "call"
    /\ \E o \in median_filter(Len(args.zxx), args.zxx) :
           /\ pc' = "done"
           /\ op' = "median_filter"
           /\ err' = o.err
           /\ ret' = IF o.err = "none" THEN o.out ELSE NoValue
    /\ UNCHANGED <<args, account_info, current_start, log>>

NextMedian == MedianFilter

SpecMedian == InitMedian /\ [][NextMedian]_vars

----------------------------------------------------------------------------
(* match.py: the matchers.                                                 *)
(*                                                                         *)
(* A score is kept exactly.  The Euclidean distance is the square root of  *)
(* ssq, a sum of squares of integers, and the square root keeps the order  *)
(* and the ties of the sums.  The Pearson coefficient of a window w and Q  *)
(* of m samples is cov / sqrt(var * varq) with cov = m*sum(w*Q) -          *)
(* sum(w)*sum(Q), var = m*sum(w*w) - sum(w)^2 and varq likewise; numpy     *)
(* divides by the standard deviations, so a constant window or a constant  *)
(* query gives 0/0 = NaN.  Two coefficients that are equal as rationals    *)
(* are taken to be equal as doubles.                                       *)

RECURSIVE SumTo(_, _)
\* f[1] + ... + f[n]
SumTo(f, n) == IF n = 0 THEN 0 ELSE f[n] + SumTo(f, n - 1)

DotProd(u, v) == SumTo([i \in 1..Len(u) |-> u[i] * v[i]], Len(u))

\* scipy.spatial.distance.euclidean(w, Q)
euclidean_distance(w, Q) ==
    [ssq |-> SumTo([i \in 1..Len(Q) |-> (w[i] - Q[i]) * (w[i] - Q[i])], Len(Q))]

\* corrcoef with the means left in: the products are not centred
corrcoef_uncentered(w, Q) ==
    LET m == Len(Q)
        var == m * DotProd(w, w) - SumTo(w, m) * SumTo(w, m)
        varq == m * DotProd(Q, Q) - SumTo(Q, m) * SumTo(Q, m)
    IN  [nan |-> var = 0 \/ varq = 0,
         cov |-> m * DotProd(w, Q),
         var |-> var,
         varq |-> varq]

\* np.corrcoef(w, Q)[0][1]
corrcoef(w, Q) ==
    LET m == Len(Q)
        var == m * DotProd(w, w) - SumTo(w, m) * SumTo(w, m)
        varq == m * DotProd(Q, Q) - SumTo(Q, m) * SumTo(Q, m)
    IN  [nan |-> var = 0 \/ varq = 0,
         cov |-> m * DotProd(w, Q) - SumTo(w, m) * SumTo(Q, m),
         var |-> var,
         varq |-> varq]

\* r < s for two coefficients against the same query (IEEE: FALSE with a NaN)
corr_lt(r, s) ==
    /\ ~r.nan
    /\ ~s.nan
    /\ IF r.cov < 0
           THEN s.cov >= 0 \/ r.cov * r.cov * s.var > s.cov * s.cov * r.var
           ELSE s.cov > 0 /\ r.cov * r.cov * s.var < s.cov * s.cov * r.var

\* the coefficient is 1.0
corr_is_one(r) == ~r.nan /\ r.cov > 0 /\ r.cov * r.cov = r.var * r.varq

\* numpy's sliding_window_view(T, m): the windows of m samples at every
\* offset, or a ValueError when the window is larger than the array.
window_at(T, i, m) == SubSeq(T, i + 1, i + m)

\* sliding_window_view that stops one window short
sliding_window_view_short(T, m) ==
    IF m > Len(T) THEN [err |-> "ValueError", v |-> <<>>]
    ELSE [err |-> "none",
          v |-> [j \in 1..(Len(T) - m) |-> window_at(T, j - 1, m)]]

sliding_window_view(T, m) ==
    IF m > Len(T) THEN [err |-> "ValueError", v |-> <<>>]
    ELSE [err |-> "none",
          v |-> [j \in 1..(Len(T) - m + 1) |-> window_at(T, j - 1, m)]]

\* the sort keys with their signs swapped: pmcc by the coefficient,
\* euclidean by -distance
key_lt_swapped(kind, x, y) ==
    IF kind = "pmcc" THEN corr_lt(x.score, y.score)
    ELSE y.score.ssq < x.score.ssq

\* key(x) < key(y) for the sort keys of the two matchers: pmcc sorts by
\* -coefficient, euclidean by the distance.
key_lt(kind, x, y) ==
    IF kind = "pmcc" THEN corr_lt(y.score, x.score)
    ELSE x.score.ssq < y.score.ssq

\* CPython's sorted() on a list of fewer than 64 items: the first run is
\* found by count_run (a strictly descending run is reversed), and the rest
\* is inserted by binarysort.  Only key(x) < key(y) is ever asked.
RECURSIVE run_end(_, _, _, _)
run_end(kind, s, descending, n) ==
    IF n = Len(s) THEN n
    ELSE IF key_lt(kind, s[n + 1], s[n]) = descending
             THEN run_end(kind, s, descending, n + 1)
             ELSE n

count_run(kind, s) ==
    LET descending == key_lt(kind, s[2], s[1])
    IN  [n |-> run_end(kind, s, descending, 2), descending |-> descending]

reverse_slice(s, n) ==
    [i \in 1..Len(s) |-> IF i <= n THEN s[n + 1 - i] ELSE s[i]]

RECURSIVE binary_pos(_, _, _, _, _)
binary_pos(kind, s, pivot, l, r) ==
    IF l >= r THEN l
    ELSE LET p == l + ((r - l) \div 2)
         IN  IF key_lt(kind, pivot, s[p])
                 THEN binary_pos(kind, s, pivot, l, p)
                 ELSE binary_pos(kind, s, pivot, p + 1, r)

RECURSIVE binarysort(_, _, _)
binarysort(kind, s, start) ==
    IF start > Len(s) THEN s
    ELSE LET l == binary_pos(kind, s, s[start], 1, start)
             moved == [i \in 1..Len(s) |->
                          IF i < l \/ i > start THEN s[i]
                          ELSE IF i = l THEN s[start]
                          ELSE s[i - 1]]
         IN  binarysort(kind, moved, start + 1)

sorted(kind, s) ==
    IF Len(s) < 2 THEN s
    ELSE LET run == count_run(kind, s)
             first == IF run.descending THEN reverse_slice(s, run.n) ELSE s
         IN  binarysort(kind, first, run.n + 1)

score_of(kind, w, Q) ==
    IF kind = "pmcc" THEN corrcoef(w, Q) ELSE euclidean_distance(w, Q)

\* pmcc and euclidean: the (offset, score) pairs of enumerate(v), sorted
matcher(kind, Q, T) ==
    LET v == sliding_window_view(T, Len(Q))
    IN  IF v.err # "none" THEN [err |-> v.err, list |-> <<>>]
        ELSE [err |-> "none",
              list |-> sorted(kind,
                  [j \in 1..Len(v.v) |->
                      [offset |-> j - 1, score |-> score_of(kind, v.v[j], Q)]])]

pmcc(Q, T) == matcher("pmcc", Q, T)

euclidean(Q, T) == matcher("euclidean", Q, T)

----------------------------------------------------------------------------
(* The matchers as a state machine: Q and T are drawn in the initial       *)
(* state, among them the series of the documented scenario.                *)

SeqsUpTo(n, S) == UNION {[1..k -> S] : k \in 1..n}

ScenarioT == <<1, 2, 3, 4, 5, 4, 3, 2, 1, 2, 3, 4, 5>>
ScenarioQ == <<2, 3, 4>>

InitMatch ==
    /\ pc = "call"
    /\ op = "none"
    /\ \/ args \in [Q : SeqsUpTo(MaxQLen, 1..MaxVal),
                    T : SeqsUpTo(MaxTLen, 1..MaxVal)]
       \/ args = [Q |-> ScenarioQ, T |-> ScenarioT]
    /\ ret = NoValue
    /\ err = "none"
    /\ Idle

FinishMatch(name, outcome) ==
    /\ pc' = "done"
    /\ op' = name
    /\ err' = outcome.err
    /\ ret' = IF outcome.err = "none" THEN outcome.list ELSE NoValue
    /\ UNCHANGED <<args, account_info, current_start, log>>

Pmcc ==
    /\ pc = "call"
    /\ FinishMatch("pmcc", pmcc(args.Q, args.T))

Euclidean ==
    /\ pc = "call"
    /\ FinishMatch("euclidean", euclidean(args.Q, args.T))

NextMatch == Pmcc \/ Euclidean

SpecMatch == InitMatch /\ [][NextMatch]_vars

----------------------------------------------------------------------------
(* gridradar.py: query_range.                                              *)
(*                                                                         *)
(* Instants and durations are integers, in ticks.  A request is logged     *)
(* with the range the loop holds (start, end) and with the 'from' and 'to' *)
(* parameters it sends, which to_rfc3339 formats without the part of a     *)
(* second.  Every HTTP call goes through auth_get, whose raise_for_status  *)
(* may raise.                                                              *)

\* the loop of the model stops taking steps once the log holds this many
\* entries; a run with max_span > 0 needs at most 2 * MaxTime of them
MaxLog == 2 * MaxTime + 2

\* to_rfc3339(dt): dt.replace(microsecond=0), formatted; the instant the
\* string names
to_rfc3339(dt) == dt - (dt % TicksPerSecond)

Min(a, b) == IF a <= b THEN a ELSE b

\* the range end without the clamp to to_dt
current_end_unclamped(start, max_span, to_dt) == start + max_span

\* current_end = min(current_start + max_span, to_dt)
current_end_of(start, max_span, to_dt) == Min(start + max_span, to_dt)

\* the guard of the rate-limit sleep: "if current_start < to_dt", evaluated
\* after current_start = current_end
sleeps_after(next_start, to_dt) == next_start < to_dt

Request(start, end) ==
    [kind |-> "get", start |-> start, end |-> end,
     from |-> to_rfc3339(start), to |-> to_rfc3339(end)]

Sleep(interval) == [kind |-> "sleep", interval |-> interval]

Requests(l) == SelectSeq(l, LAMBDA e : e.kind = "get")

InitGrid ==
    /\ pc = "call"
    /\ op = "none"
    /\ args \in [from_dt : 0..MaxTime, to_dt : 0..MaxTime]
    /\ ret = NoValue
    /\ err = "none"
    /\ Idle

\* query_range up to the loop: get_account_info, max_span, min_interval
GetAccountInfo ==
    /\ pc = "call"
    /\ op' = "query_range"
    /\ \/ /\ \E span \in 0..MaxSpan, interval \in 1..MaxInterval :
                account_info' = [max_span |-> span, min_interval |-> interval]
          /\ current_start' = args.from_dt
          /\ pc' = "loop"
          /\ UNCHANGED err
       \/ /\ err' = "RequestError"
          /\ pc' = "done"
          /\ UNCHANGED <<account_info, current_start>>
    /\ UNCHANGED <<args, ret, log>>

\* one pass of "while current_start < to_dt"
LoopIteration ==
    /\ pc = "loop"
    /\ current_start < args.to_dt
    /\ Len(log) < MaxLog
    /\ LET current_end ==
               current_end_of(current_start, account_info.max_span, args.to_dt)
           sent == Append(log, Request(current_start, current_end))
       IN  \/ /\ current_start' = current_end
              /\ log' = IF sleeps_after(current_end, args.to_dt)
                            THEN Append(sent, Sleep(account_info.min_interval))
                            ELSE sent
              /\ UNCHANGED <<pc, err>>
           \/ /\ err' = "RequestError"
              /\ pc' = "done"
              /\ log' = sent
              /\ UNCHANGED current_start
    /\ UNCHANGED <<op, args, ret, account_info>>

\* the loop condition fails: the collected datapoints are returned, one
\* batch per request
LoopExit ==
    /\ pc = "loop"
    /\ ~(current_start < args.to_dt)
    /\ pc' = "done"
    /\ ret' = [i \in 1..Len(Requests(log)) |->
                  <<Requests(log)[i].from, Requests(log)[i].to>>]
    /\ UNCHANGED <<op, args, err, account_info, current_start, log>>

NextGrid == GetAccountInfo \/ LoopIteration \/ LoopExit

\* The loop runs in one thread that nothing preempts for ever: a step that
\* can be taken is taken.
SpecGrid == InitGrid /\ [][NextGrid]_vars /\ WF_vars(NextGrid)

----------------------------------------------------------------------------
(* Properties of the rate conversion, checked under SpecRate.              *)

\* C1: resample, decimate_and_interpolate and almost_decimate raise the
\* rate-validation error exactly when new_fs >= fs, new_fs = fs included.
C1_RateValidation ==
    pc = "done" => (err = "InvalidRate" <=> args.new_fs >= args.fs)

\* C2: for new_fs < fs, resample returns new_fs and round(len * new_fs / fs)
\* samples: an integer nearest to the quotient (either one, at a tie).
C2_RoundedCount ==
    (pc = "done" /\ op = "resample" /\ args.new_fs < args.fs) =>
        /\ err = "none"
        /\ ret.rate = args.new_fs
        /\ 2 * (ret.len * args.fs - args.len * args.new_fs) <= args.fs
        /\ 2 * (args.len * args.new_fs - ret.len * args.fs) <= args.fs

----------------------------------------------------------------------------
(* Properties of the ENF extraction.                                       *)

\* C7, checked under SpecMedian: median_filter returns one value per time
\* slice of the grid, whichever bin holds the peak of a slice.
C7_OnePerSlice ==
    (pc = "done" /\ op = "median_filter") =>
        (err = "none" /\ Len(ret) = Len(args.zxx))

StageCalls == SelectSeq(log, LAMBDA c : c.fn # "resample")

\* the calls of the bandpass filter and of the STFT
SignalCalls ==
    SelectSeq(log, LAMBDA c : c.fn \in {"butter_bandpass_filter", "stft"})

Downsampling ==
    args.new_fs.given /\ 0 < args.new_fs.value /\ args.new_fs.value < args.fs

\* C9, checked under SpecEnf: enf_series calls resample only when new_fs is
\* given and 0 < new_fs < fs.  Otherwise (None, 0, new_fs >= fs) resample is
\* not called, no rate-validation error is raised, and the filter and the
\* STFT are handed the input signal at the rate fs.  When 0 < new_fs < fs
\* resample is the first call, no rate-validation error is raised, and the
\* filter and the STFT are handed the signal resample returned, at the rate
\* new_fs.
C9_ResampleOnlyDown ==
    (pc = "done" /\ op = "enf_series") =>
        /\ err # "InvalidRate"
        /\ err = "none" => Len(SignalCalls) = 2
        /\ ~Downsampling =>
               /\ log = StageCalls
               /\ Len(SignalCalls) >= 1
               /\ \A i \in 1..Len(SignalCalls) :
                      /\ SignalCalls[i].len = args.len
                      /\ SignalCalls[i].fs = args.fs
        /\ Downsampling =>
               /\ log[1] = Call("resample", args.len, args.fs)
               /\ StageCalls = Tail(log)
               /\ \A i \in 1..Len(SignalCalls) :
                      /\ SignalCalls[i].fs = args.new_fs.value
                      /\ \E r \in resample(args.len, args.fs, args.new_fs.value) :
                             r.err = "none" /\ r.len = SignalCalls[i].len

\* a downsampling call that went through every stage
C9_Witness ==
    /\ pc = "done"
    /\ op = "enf_series"
    /\ err = "none"
    /\ Downsampling
    /\ Len(log) = 4
    /\ log[2].fn = "butter_bandpass_filter"
    /\ log[2].len < args.len

----------------------------------------------------------------------------
(* Properties of query_range, checked under SpecGrid.                      *)

InRange ==
    /\ op = "query_range"
    /\ pc # "call"
    /\ account_info # NoValue
    /\ args.from_dt < args.to_dt

Returned_ == pc = "done" /\ err = "none"

WholeSeconds ==
    /\ args.from_dt % TicksPerSecond = 0
    /\ args.to_dt % TicksPerSecond = 0
    /\ account_info.max_span % TicksPerSecond = 0

\* a sleep follows every request but the last one, and nothing else sleeps
SleepsBetween ==
    /\ \A i \in 1..Len(log) :
           (i % 2 = 1) <=> (log[i].kind = "get")
    /\ Returned_ => (Len(log) >= 1 /\ log[Len(log)].kind = "get")

\* C10 as stated, the part a finite run decides: with from_dt < to_dt and
\* max_span > 0 the requested (from, to) ranges start at from_dt, each
\* starts where the one before ended, none is longer than max_span, the
\* last one ends at to_dt when query_range returns, and a sleep lies
\* between consecutive requests and not after the last.
C10_RequestedPartition ==
    (InRange /\ account_info.max_span > 0) =>
        LET rq == Requests(log)
        IN  /\ Len(rq) >= 1 => rq[1].from = args.from_dt
            /\ \A i \in 1..(Len(rq) - 1) : rq[i + 1].from = rq[i].to
            /\ \A i \in 1..Len(rq) :
                   rq[i].to - rq[i].from <= account_info.max_span
            /\ Returned_ => (Len(rq) >= 1 /\ rq[Len(rq)].to = args.to_dt)
            /\ SleepsBetween

\* the same of the ranges (current_start, current_end) the loop holds
LoopPartition ==
    (InRange /\ account_info.max_span > 0) =>
        LET rq == Requests(log)
        IN  /\ Len(rq) >= 1 => rq[1].start = args.from_dt
            /\ \A i \in 1..(Len(rq) - 1) : rq[i + 1].start = rq[i].end
            /\ \A i \in 1..Len(rq) :
                   /\ rq[i].start < rq[i].end
                   /\ rq[i].end - rq[i].start <= account_info.max_span
            /\ Returned_ => (Len(rq) >= 1 /\ rq[Len(rq)].end = args.to_dt)
            /\ SleepsBetween

\* the parameters sent are the loop's instants when all are whole seconds
SentAsHeld ==
    (InRange /\ WholeSeconds) =>
        \A i \in 1..Len(log) :
            log[i].kind = "get" =>
                (log[i].from = log[i].start /\ log[i].to = log[i].end)

\* with max_span = 0 the cursor never moves and query_range never returns
ZeroSpanStays ==
    (InRange /\ account_info.max_span = 0) =>
        (current_start = args.from_dt /\ ~Returned_)

\* C10 as amended: with from_dt < to_dt and max_span > 0 the loop ends (it
\* returns, or a request raises), and the ranges (current_start,
\* current_end) it walks are a contiguous partition of [from_dt, to_dt] in
\* non-empty steps of at most max_span, with a sleep between consecutive
\* requests and none after the last; the 'from' and 'to' sent are those
\* instants cut to whole seconds, the same ranges when from_dt, to_dt and
\* max_span are whole seconds; with max_span = 0 the cursor stays at
\* from_dt and query_range never returns.
C10_Amended ==
    /\ [](LoopPartition /\ SentAsHeld /\ ZeroSpanStays)
    /\ (pc = "loop" /\ account_info.max_span > 0) ~> (pc = "done")

\* a returned query of three requests or more that started within a second
C10_Witness ==
    /\ InRange
    /\ Returned_
    /\ account_info.max_span > 0
    /\ args.from_dt % TicksPerSecond # 0
    /\ Len(Requests(log)) >= 3

----------------------------------------------------------------------------
(* Properties of the matchers, checked under SpecMatch.                    *)

MatchDone == pc = "done" /\ op \in {"pmcc", "euclidean"}

LenQ == Len(args.Q)
LenT == Len(args.T)

\* the offsets at which the query is an exact subsequence of the reference
ExactOffsets == {k \in 0..(LenT - LenQ) : SubSeq(args.T, k + 1, k + LenQ) = args.Q}

\* the score is the best one there is: distance 0, coefficient 1.0
Perfect(score) ==
    IF op = "pmcc" THEN corr_is_one(score) ELSE score.ssq = 0

\* x is a strictly better score than y (never, when either is NaN)
Better(x, y) ==
    IF op = "pmcc" THEN corr_lt(y, x) ELSE x.ssq < y.ssq

PerfectOffsets == {ret[i].offset : i \in {j \in 1..Len(ret) : Perfect(ret[j].score)}}

HasNaN ==
    \/ corrcoef(args.Q, args.Q).nan
    \/ \E k \in 0..(LenT - LenQ) :
           corrcoef(SubSeq(args.T, k + 1, k + LenQ), args.Q).nan

\* C3: for 1 <= len(Q) <= len(T), pmcc and euclidean return exactly
\* len(T)-len(Q)+1 pairs, their offsets are every integer of
\* [0, len(T)-len(Q)] exactly once, and the pair with offset i carries the
\* score of Q against the window T[i .. i+len(Q)-1].
C3_OffsetRange ==
    (MatchDone /\ LenQ <= LenT) =>
        /\ err = "none"
        /\ Len(ret) = LenT - LenQ + 1
        /\ {ret[i].offset : i \in 1..Len(ret)} = 0..(LenT - LenQ)
        /\ \A i \in 1..Len(ret) :
               ret[i].score =
                   score_of(op, SubSeq(args.T, ret[i].offset + 1,
                                       ret[i].offset + LenQ), args.Q)

\* a call whose sort moved the pairs: the first pair is not offset 0
C3_Witness ==
    /\ MatchDone
    /\ op = "pmcc"
    /\ err = "none"
    /\ Len(ret) >= 3
    /\ ret[1].offset # 0

\* C4: with len(Q) > len(T), pmcc and euclidean return the empty list and
\* raise nothing.
C4_LongQueryEmpty ==
    (MatchDone /\ LenQ > LenT) => (err = "none" /\ ret = <<>>)

InScenario == MatchDone /\ args.Q = ScenarioQ /\ args.T = ScenarioT

FirstOffsets(n) == {ret[i].offset : i \in 1..n}

\* C6 as stated: in the scenario euclidean scores 0 at exactly the offsets
\* 1 and 10, ahead of all others, and pmcc scores 1.0 at exactly the offsets
\* 1, 9 and 10.
C6_Scenario ==
    InScenario =>
        /\ err = "none"
        /\ op = "euclidean" =>
               (PerfectOffsets = {1, 10} /\ FirstOffsets(2) = {1, 10})
        /\ op = "pmcc" => PerfectOffsets = {1, 9, 10}

\* C6 as amended: in the scenario euclidean scores 0 at exactly the offsets
\* 1 and 9, which are its first two pairs, and pmcc scores 1.0 at exactly
\* the offsets 0, 1, 2, 8, 9 and 10, which are its first six pairs.
C6_ScenarioAmended ==
    InScenario =>
        /\ err = "none"
        /\ op = "euclidean" =>
               (PerfectOffsets = {1, 9} /\ FirstOffsets(2) = {1, 9})
        /\ op = "pmcc" =>
               (PerfectOffsets = {0, 1, 2, 8, 9, 10}
                   /\ FirstOffsets(6) = {0, 1, 2, 8, 9, 10})

C6_Witness == InScenario /\ op = "pmcc" /\ err = "none" /\ Len(ret) = 11

\* C8: the returned list is ordered best-first, distances ascending for
\* euclidean and coefficients descending for pmcc: no pair is followed by a
\* pair with a strictly better score.
C8_BestFirst ==
    (MatchDone /\ err = "none") =>
        \A i \in 1..Len(ret) : \A j \in 1..Len(ret) :
            i < j => ~Better(ret[j].score, ret[i].score)

====
